---- MODULE Spec2Model ----
(***************************************************************************)
(* Model of the banned-drug invoice matcher: ocr_matcher.py (normalize,    *)
(* load_dataset_csv, find_banned_drugs_in_invoice, process_invoice), the   *)
(* dataset paths of demo_app/webapp.py and the CSV writer of               *)
(* generate_demo_dataset.py.                                               *)
(*                                                                         *)
(* A Python str is a sequence of characters; a character is a one-char     *)
(* string, or the token "U+xxxx" for a character outside ASCII.            *)
(***************************************************************************)
EXTENDS Integers, Sequences, FiniteSets, TLC

VARIABLES
    pc,            \* position in process_invoice / in the normalize harness
    document,      \* what the OCR collaborator yields for pdf_path
    csv_paths,     \* dataset_csvs: the ordered sources, each with what storage holds
    ocr_texts,     \* process_invoice local: per-page raw text
    dataset_rows,  \* process_invoice local: rows returned by load_dataset_csv
    invoice_text,  \* find_banned_drugs_in_invoice local: the normalized joined text
    banned_found,  \* process_invoice local: the matcher's sorted result
    returned,      \* the record process_invoice returns (None before / on error)
    raised,        \* the exception that left process_invoice, or None
    text,          \* normalize harness: the input string
    once,          \* normalize harness: normalize(text)
    twice          \* normalize harness: normalize(normalize(text))

vars == <<pc, document, csv_paths, ocr_texts, dataset_rows, invoice_text, banned_found,
          returned, raised, text, once, twice>>

None == "None"

(* ------------------------------ bounds ------------------------------- *)
MaxLen == 3      \* longest string given to the normalize harness
MaxLines == 2    \* most data lines in one CSV source
MaxPages == 2    \* most pages in one document of the page pool

(* --------------------------- characters ------------------------------ *)
UpperCase == <<"A","B","C","D","E","F","G","H","I","J","K","L","M",
               "N","O","P","Q","R","S","T","U","V","W","X","Y","Z">>
LowerCase == <<"a","b","c","d","e","f","g","h","i","j","k","l","m",
               "n","o","p","q","r","s","t","u","v","w","x","y","z">>
Digits == <<"0","1","2","3","4","5","6","7","8","9">>

Range(f) == {f[i] : i \in DOMAIN f}
IndexOf(seq, c) == CHOOSE i \in DOMAIN seq : seq[i] = c

\* Unicode White_Space as str.isspace() and the regex class \s see it
\* (space, newline, tab, NO-BREAK SPACE).
IsSpace(c) == c \in {" ", "\n", "\t", "U+00A0"}

\* str.lower() of one character: a string, since U+0130 lowers to two
\* characters ("i" followed by COMBINING DOT ABOVE).
LowerChar(c) ==
    CASE c \in Range(UpperCase) -> <<LowerCase[IndexOf(UpperCase, c)]>>
      [] c = "U+00C9" -> <<"U+00E9">>          \* E acute
      [] c = "U+212A" -> <<"k">>               \* KELVIN SIGN
      [] c = "U+0130" -> <<"i", "U+0307">>     \* I with dot above
      [] OTHER -> <<c>>

\* str.upper() of one character, for the characters capitalize() meets.
UpperChar(c) ==
    CASE c \in Range(LowerCase) -> <<UpperCase[IndexOf(LowerCase, c)]>>
      [] c = "U+00E9" -> <<"U+00C9">>
      [] OTHER -> <<c>>

\* ord(c): Python orders str by code point.
CodePoint(c) ==
    CASE c \in Range(UpperCase) -> 64 + IndexOf(UpperCase, c)
      [] c \in Range(LowerCase) -> 96 + IndexOf(LowerCase, c)
      [] c \in Range(Digits) -> 47 + IndexOf(Digits, c)
      [] c = "\t" -> 9
      [] c = "\n" -> 10
      [] c = " " -> 32
      [] c = "+" -> 43
      [] c = "-" -> 45
      [] c = ":" -> 58
      [] c = "U+00A0" -> 160
      [] c = "U+00C9" -> 201
      [] c = "U+00E9" -> 233
      [] c = "U+0130" -> 304
      [] c = "U+0307" -> 775
      [] c = "U+212A" -> 8490

(* ----------------------------- str methods --------------------------- *)
\* str.lower(): every character lower-cased (a character may lower-case to
\* two), computed by halves.
RECURSIVE lower(_)
lower(s) ==
    IF s = <<>> THEN <<>>
    ELSE IF Len(s) = 1 THEN LowerChar(s[1])
    ELSE LET half == Len(s) \div 2
         IN lower(SubSeq(s, 1, half)) \o lower(SubSeq(s, half + 1, Len(s)))

\* str.capitalize(): first character upper-cased, the rest lower-cased.
capitalize(s) ==
    IF s = <<>> THEN <<>> ELSE UpperChar(Head(s)) \o lower(Tail(s))

RECURSIVE lstrip(_)
lstrip(s) == IF s # <<>> /\ IsSpace(Head(s)) THEN lstrip(Tail(s)) ELSE s

RECURSIVE rstrip(_)
rstrip(s) ==
    IF s # <<>> /\ IsSpace(s[Len(s)]) THEN rstrip(SubSeq(s, 1, Len(s) - 1))
    ELSE s

strip(s) == rstrip(lstrip(s))

\* sub in s, for str: sub occurs as a contiguous run of s ("" is in every s).
Contains(s, sub) ==
    \E i \in 0..(Len(s) - Len(sub)) : SubSeq(s, i + 1, i + Len(sub)) = sub

\* sep.join(parts)
RECURSIVE join(_, _)
join(sep, parts) ==
    IF parts = <<>> THEN <<>>
    ELSE IF Len(parts) = 1 THEN parts[1]
    ELSE parts[1] \o sep \o join(sep, Tail(parts))

\* s1 < s2 for str: lexicographic by code point, a proper prefix first.
RECURSIVE StrLess(_, _)
StrLess(s1, s2) ==
    IF s2 = <<>> THEN FALSE
    ELSE IF s1 = <<>> THEN TRUE
    ELSE IF Head(s1) = Head(s2) THEN StrLess(Tail(s1), Tail(s2))
    ELSE CodePoint(Head(s1)) < CodePoint(Head(s2))

\* sorted(..., reverse=True)
RECURSIVE sorted_Reverse(_)
sorted_Reverse(S) ==
    IF S = {} THEN <<>>
    ELSE LET m == CHOOSE x \in S : \A y \in S \ {x} : StrLess(y, x)
         IN <<m>> \o sorted_Reverse(S \ {m})

\* sorted(a set of str): ascending list of its elements.
RECURSIVE sorted(_)
sorted(S) ==
    IF S = {} THEN <<>>
    ELSE LET m == CHOOSE x \in S : \A y \in S \ {x} : StrLess(x, y)
         IN <<m>> \o sorted(S \ {m})

(* --------------------------- normalize ------------------------------- *)
\* re.sub(r"[^a-z0-9\s]", " ", text)
SubNotAlnumSpace(s) ==
    [i \in 1..Len(s) |->
        IF s[i] \in Range(LowerCase) \/ s[i] \in Range(Digits) \/ IsSpace(s[i])
        THEN s[i] ELSE " "] \o <<>>

\* re.sub(r"\s+", " ", text): every maximal run of whitespace becomes " ".
\* Computed by halves: a run that crosses the middle is collapsed once.
RECURSIVE SubSpaceRuns(_)
SubSpaceRuns(s) ==
    IF s = <<>> THEN <<>>
    ELSE IF Len(s) = 1 THEN (IF IsSpace(s[1]) THEN <<" ">> ELSE s)
    ELSE LET half == Len(s) \div 2
             left == SubSpaceRuns(SubSeq(s, 1, half))
             right == SubSpaceRuns(SubSeq(s, half + 1, Len(s)))
         IN IF left[Len(left)] = " " /\ right[1] = " "
            THEN left \o Tail(right)
            ELSE left \o right

\* normalize with the two substitutions in the other order.
normalize_CollapseFirst(s) == strip(SubNotAlnumSpace(SubSpaceRuns(lower(s))))

normalize(s) == strip(SubSpaceRuns(SubNotAlnumSpace(lower(s))))


(* ------------------------ rapidfuzz.fuzz ----------------------------- *)
\* A similarity score is the exact fraction 100 * num / den (the library
\* returns the double (1.0 - dist / den) * 100, which compares with 85 as
\* the fraction does for every den the model reaches).
Score(num, den) == [num |-> num, den |-> den]
ScoreLess(a, b) == a.num * b.den < b.num * a.den
\* score > threshold in place of score >= threshold.
ScoreAbove(a, t) == 100 * a.num > t * a.den
ScoreAtLeast(a, t) == 100 * a.num >= t * a.den

Max2(a, b) == IF a >= b THEN a ELSE b

\* The longest-common-subsequence table, row by row: rows[i + 1][j + 1] is
\* the LCS length of the first i characters of s1 and the first j of w.
RECURSIVE LcsRow(_, _, _, _)
LcsRow(prev, c, w, cur) ==
    LET j == Len(cur)
    IN IF j > Len(w) THEN cur
       ELSE LcsRow(prev, c, w,
                   Append(cur, IF c = w[j] THEN prev[j] + 1
                               ELSE Max2(prev[j + 1], cur[j])))

RECURSIVE LcsTable(_, _, _)
LcsTable(s1, w, rows) ==
    LET i == Len(rows)
    IN IF i > Len(s1) THEN rows
       ELSE LcsTable(s1, w, Append(rows, LcsRow(rows[i], s1[i], w, <<0>>)))

Lcs(s1, w) ==
    LET rows == LcsTable(s1, w, <<[j \in 1..(Len(w) + 1) |-> 0]>>)
    IN rows[Len(s1) + 1][Len(w) + 1]

\* fuzz.ratio: normalized Indel similarity, 100 * 2 * lcs / (len1 + len2).
ratio(s1, s2) ==
    IF s1 = <<>> /\ s2 = <<>> THEN Score(1, 1)
    ELSE Score(2 * Lcs(s1, s2), Len(s1) + Len(s2))

\* The windows of s2 a needle s1 (len1 <= len2) is aligned with: the
\* prefixes shorter than s1, every run of len1 characters, the suffixes
\* no longer than s1; a window is passed over when its last character
\* (its first, for a suffix) does not occur in s1.
Windows(s1, s2) ==
    LET len1 == Len(s1)
        len2 == Len(s2)
        s1_char_set == Range(s1)
    IN {SubSeq(s2, 1, i) : i \in {k \in 1..(len1 - 1) : s2[k] \in s1_char_set}}
       \cup {SubSeq(s2, i + 1, i + len1) :
                i \in {k \in 0..(len2 - len1 - 1) : s2[k + len1] \in s1_char_set}}
       \cup {SubSeq(s2, i + 1, len2) :
                i \in {k \in (len2 - len1)..(len2 - 1) : s2[k + 1] \in s1_char_set}}

\* The best fuzz.ratio of s1 against a window of s2 (0 when there is none).
PartialRatioImpl(s1, s2) ==
    LET scores == {ratio(s1, w) : w \in Windows(s1, s2)} \cup {Score(0, 1)}
    IN CHOOSE best \in scores : \A other \in scores : ~ScoreLess(best, other)

\* fuzz.partial_ratio(s1, s2)
partial_ratio(s1, s2) ==
    IF s1 = <<>> \/ s2 = <<>>
    THEN IF s1 = s2 THEN Score(1, 1) ELSE Score(0, 1)
    ELSE LET shorter == IF Len(s1) <= Len(s2) THEN s1 ELSE s2
             longer == IF Len(s1) <= Len(s2) THEN s2 ELSE s1
             res == PartialRatioImpl(shorter, longer)
         IN IF res.num # res.den /\ Len(s1) = Len(s2)
            THEN LET res2 == PartialRatioImpl(longer, shorter)
                 IN IF ScoreLess(res, res2) THEN res2 ELSE res
            ELSE res

(* ------------------------------ inputs ------------------------------- *)
\* Dataset items as generate_invoice builds them (brand, generic, strength,
\* batch, is_banned): generics of drug_pool and of the spec's scenarios, and
\* generics that normalize to the empty string.
Item(brand, generic, banned) ==
    [brand |-> brand, generic |-> generic, strength |-> <<"1","0","m","g">>,
     batch |-> <<"B","1">>, is_banned |-> banned]

ItemPool ==
    { Item(<<"C","e","f","i","x","i","m","e"," ","2","0","0">>, <<"C","e","f","i","x","i","m","e">>, TRUE),
      Item(<<"N","i","m","e","k">>, <<"n","i","m","e","s","u","l","i","d","e">>, TRUE),
      Item(<<"N","i","m","e","s","u","l","i","d","e"," ","D","T">>, <<"N","i","m","e","s","u","l","i","d","e"," ","D","T">>, TRUE),
      Item(<<"N","i","m","e","s","u","l","i","d","e"," ","D","T">>, <<"N","i","m","e","s","u","l","i","d","e">>, FALSE),
      Item(<<"O","f","l","o","x","-","O","Z">>, <<"O","f","l","o","x","a","c","i","n"," ","+"," ","O","r","n","i","d","a","z","o","l","e">>, TRUE),
      Item(<<"B","l","a","n","k">>, <<>>, TRUE),
      Item(<<"M","a","r","k","s">>, <<" ","-","+"," ">>, TRUE) }

\* OCR page texts: the spec's exact-match scenario, a safety-net keyword,
\* and a page of two lines with noisy readings of "Nimesulide DT" and of
\* "Ofloxacin + Ornidazole".
PagePool ==
    { <<"C","E","F","I","X","I","M","E","-","2","0","0","m","g">>,
      <<"n","i","m","e","s","u","l","i","d","e">>,
      <<"n","1","m","e","s","u","l","1","d","e"," ","d","t","\n",
        "o","f","l","0","x","a","c","i","n"," ","0","r","n","i","d","a","z","0","l","e">> }

RECURSIVE ListsUpTo(_, _)
ListsUpTo(S, n) ==
    IF n = 0 THEN {<<>>}
    ELSE LET shorter == ListsUpTo(S, n - 1)
         IN shorter \cup {Append(l, x) : l \in {t \in shorter : Len(t) = n - 1}, x \in S}

\* What ocr_pdf_text does with pdf_path: it returns the page texts, or the
\* renderer / OCR engine raises.
Readable(pages) == [ok |-> TRUE, pages |-> pages]
Unrenderable == [ok |-> FALSE, pages |-> <<>>]

DocPool == {Readable(p) : p \in ListsUpTo(PagePool, MaxPages)}

\* The document of the dataset-shape scenarios: a page with an exact match
\* and a page with a safety-net keyword.
ShapeDoc == Readable(<<<<"C","E","F","I","X","I","M","E","-","2","0","0","m","g">>, <<"n","i","m","e","s","u","l","i","d","e">>>>)

\* TLC evaluates a constant once: the scores of the (generic, invoice text)
\* pairs the inputs above give rise to, so that a state does not compute
\* them again (@@ makes the function an explicit table).
\* fuzz_partial_ratio is partial_ratio on every argument.
ScoreTable ==
    LET generics == {normalize(it.generic) : it \in ItemPool} \ {<<>>}
        texts == {normalize(join(<<"\n">>, d.pages)) : d \in DocPool \cup {ShapeDoc}}
    IN [p \in generics \X texts |-> partial_ratio(p[1], p[2])] @@ <<>>

fuzz_partial_ratio(s1, s2) ==
    IF <<s1, s2>> \in DOMAIN ScoreTable THEN ScoreTable[<<s1, s2>>]
    ELSE partial_ratio(s1, s2)

(* --------------------------- load_dataset_csv ------------------------ *)
\* The Python value None where a str is expected (DictReader's restval).
NoneValue == <<"<None>">>

\* str(x) for a field value: str(None) is "None", a str is itself.
str(x) == IF x = NoneValue THEN <<"N","o","n","e">> ELSE x

\* What storage holds at a path of csv_paths: no path at all ("" or None),
\* no file, a file open() cannot read, or a CSV file as csv.reader splits
\* it: the header line and the data lines, each a list of fields.
NoPath == [kind |-> "nopath", header |-> <<>>, lines |-> <<>>]
Absent == [kind |-> "absent", header |-> <<>>, lines |-> <<>>]
Unreadable == [kind |-> "unreadable", header |-> <<>>, lines |-> <<>>]
CsvFile(header, lines) == [kind |-> "file", header |-> header, lines |-> lines]

\* csv.DictReader: one dict per non-empty data line, keyed by the header;
\* a key whose field the line lacks maps to None (restval), a repeated
\* column name keeps its last field, fields beyond the header go under
\* the key None, which load_dataset_csv never reads.
DictRow(header, line) ==
    [k \in Range(header) |->
        LET i == CHOOSE n \in DOMAIN header :
                     header[n] = k /\ \A m \in DOMAIN header : header[m] = k => m <= n
        IN IF i <= Len(line) THEN line[i] ELSE NoneValue]

\* r.get(key, "")
Get(r, key) == IF key \in DOMAIN r THEN r[key] ELSE <<>>

\* The comparison without .lower().
ParseIsBanned_Exact(r) == str(Get(r, "is_banned")) = <<"t","r","u","e">>

\* str(r.get("is_banned", "")).lower() == "true"
ParseIsBanned(r) == lower(str(Get(r, "is_banned"))) = <<"t","r","u","e">>

\* The dict literal of rows.append: .strip() on None raises AttributeError.
ShapeRow(r) ==
    IF \E k \in {"brand", "generic", "batch"} : Get(r, k) = NoneValue
    THEN [exc |-> "AttributeError", rows |-> <<>>]
    ELSE [exc |-> None,
          rows |-> <<[brand |-> strip(Get(r, "brand")),
                      generic |-> strip(Get(r, "generic")),
                      is_banned |-> ParseIsBanned(r),
                      batch |-> strip(Get(r, "batch"))]>>]

\* The rows of one opened file, or the exception its first bad line raises.
RECURSIVE ReadRows(_, _)
ReadRows(header, lines) ==
    IF lines = <<>> THEN [exc |-> None, rows |-> <<>>]
    ELSE IF Head(lines) = <<>> THEN ReadRows(header, Tail(lines))
    ELSE LET first == ShapeRow(DictRow(header, Head(lines)))
         IN IF first.exc # None THEN first
            ELSE LET rest == ReadRows(header, Tail(lines))
                 IN IF rest.exc # None THEN rest
                    ELSE [exc |-> None, rows |-> first.rows \o rest.rows]

\* load_dataset_csv(csv_paths): the rows, or the exception that leaves it.
RECURSIVE load_dataset_csv(_)
load_dataset_csv(paths) ==
    IF paths = <<>> THEN [exc |-> None, rows |-> <<>>]
    ELSE LET p == Head(paths)
             first == CASE p.kind \in {"nopath", "absent"} -> [exc |-> None, rows |-> <<>>]
                        [] p.kind = "unreadable" -> [exc |-> "PermissionError", rows |-> <<>>]
                        [] p.kind = "file" -> ReadRows(p.header, p.lines)
         IN IF first.exc # None THEN first
            ELSE LET rest == load_dataset_csv(Tail(paths))
                 IN IF rest.exc # None THEN rest
                    ELSE [exc |-> None, rows |-> first.rows \o rest.rows]

(* --------------------------- save_dataset ---------------------------- *)
\* The header row save_dataset writes.
SaveHeader ==
    <<"invoice_id", "pdf", "pharmacy", "date", "doctor", "brand", "generic",
      "strength", "batch", "qty", "price", "gst", "line_total", "is_banned">>

\* csv.writer writes a bool as str(bool).
StrBool(b) == IF b THEN <<"T","r","u","e">> ELSE <<"F","a","l","s","e">>

\* The line save_dataset writes for one item of an invoice record.
SaveLine(item) ==
    <<<<"T","1">>, <<"a",".","p","d","f">>, <<"C","i","t","y">>, <<"2","0","2","6">>, <<"D","R">>,
      item.brand, item.generic, item.strength, item.batch,
      <<"1">>, <<"3","0">>, <<"5">>, <<"3","1">>, StrBool(item.is_banned)>>

\* The dataset CSV save_dataset leaves in storage for a list of items.
SavedCsv(items) == CsvFile(SaveHeader, [i \in DOMAIN items |-> SaveLine(items[i])])

(* ------------------------ hand-made sources -------------------------- *)
\* CSV sources with the spec's minimum columns in two orders, and one
\* without the is_banned column.
ShapeHeaders ==
    { <<"brand", "generic", "is_banned", "batch">>,
      <<"brand", "generic", "batch", "is_banned">>,
      <<"brand", "generic", "batch">> }

Spellings ==
    { <<"t","r","u","e">>, <<"T","R","U","E">>, <<"T","r","u","e">>, <<" ","t","r","u","e">>, <<"f","a","l","s","e">>, <<"1">>, <<"y","e","s">>, <<>> }

ShapeFields(spelling) ==
    [brand |-> <<"C","e","f","i","x","i","m","e"," ","2","0","0">>, generic |-> <<" ","C","e","f","i","x","i","m","e"," ">>,
     is_banned |-> spelling, batch |-> <<"B","1">>]

\* The first n fields of the data line that lays the fields out as the
\* header orders them.
LineOf(header, fields, n) ==
    SubSeq([i \in DOMAIN header |-> fields[header[i]]], 1, n)

\* Data lines for a header: every spelling of is_banned on a full line, a
\* blank line, and lines cut short after two and after three fields.
ShapeLines(header) ==
    {LineOf(header, ShapeFields(s), Len(header)) : s \in Spellings}
    \cup {LineOf(header, ShapeFields(<<"t","r","u","e">>), n) : n \in {0, 2, 3}}

ShapeSources ==
    {NoPath, Absent, Unreadable}
    \cup UNION {{CsvFile(h, l) : l \in ListsUpTo(ShapeLines(h), MaxLines)} : h \in ShapeHeaders}

\* The other source of a hand-made one: missing, or a saved dataset of one
\* banned item.
OtherSources == {Absent, SavedCsv(<<Item(<<"C","e","f","i","x","i","m","e"," ","2","0","0">>, <<"C","e","f","i","x","i","m","e">>, TRUE)>>)}

(* ------------------- find_banned_drugs_in_invoice -------------------- *)
\* normalize("\n".join(ocr_texts))
InvoiceText(pages) == normalize(join(<<"\n">>, pages))

BANNED_KEYWORDS == {<<"n","i","m","e","s","u","l","i","d","e">>}

FUZZY_THRESHOLD == 85

\* The loop body without the is_banned test.
RowAdds_NoBannedTest(r, text_) ==
    LET generic == normalize(r.generic)
    IN IF generic = <<>> THEN {}
       ELSE IF Contains(text_, generic) THEN {r.generic}
       ELSE IF ScoreAtLeast(fuzz_partial_ratio(generic, text_), FUZZY_THRESHOLD)
            THEN {r.generic}
            ELSE {}

\* The loop body adding the normalized generic, not r["generic"].
RowAdds_AddsNormalized(r, text_) ==
    IF ~r.is_banned THEN {}
    ELSE LET generic == normalize(r.generic)
         IN IF generic = <<>> THEN {}
            ELSE IF Contains(text_, generic) THEN {generic}
            ELSE IF ScoreAtLeast(fuzz_partial_ratio(generic, text_), FUZZY_THRESHOLD)
                 THEN {generic}
                 ELSE {}

\* The loop body without the test for an empty normalized generic.
RowAdds_NoEmptyTest(r, text_) ==
    IF ~r.is_banned THEN {}
    ELSE LET generic == normalize(r.generic)
         IN IF Contains(text_, generic) THEN {r.generic}
            ELSE IF ScoreAtLeast(fuzz_partial_ratio(generic, text_), FUZZY_THRESHOLD)
                 THEN {r.generic}
                 ELSE {}

\* What one pass of the loop over dataset_rows adds to found_banned.
RowAdds(r, text_) ==
    IF ~r.is_banned THEN {}
    ELSE LET generic == normalize(r.generic)
         IN IF generic = <<>> THEN {}
            ELSE IF Contains(text_, generic) THEN {r.generic}
            ELSE IF ScoreAtLeast(fuzz_partial_ratio(generic, text_),
                                 FUZZY_THRESHOLD)
                 THEN {r.generic}
                 ELSE {}

\* The safety net as a fallback, run only when no row was flagged.
SafetyNet_OnlyWhenEmpty(found, text_) ==
    IF found # {} THEN found
    ELSE {capitalize(kw) : kw \in {k \in BANNED_KEYWORDS : Contains(text_, k)}}

\* The safety-net loop over BANNED_KEYWORDS.
SafetyNet(found, text_) ==
    found \cup {capitalize(kw) : kw \in {k \in BANNED_KEYWORDS : Contains(text_, k)}}

\* found_banned after both loops, sorted.
FoundBanned(rows, text_) ==
    sorted(SafetyNet(UNION {RowAdds(rows[i], text_) : i \in DOMAIN rows}, text_))

find_banned_drugs_in_invoice(pages, rows) == FoundBanned(rows, InvoiceText(pages))

(* -------------------------- process_invoice -------------------------- *)
\* A saved dataset and a document of the page pool.
InitMatch ==
    /\ document \in DocPool \cup {Unrenderable}
    /\ csv_paths \in {<<SavedCsv(items), Absent>> : items \in ListsUpTo(ItemPool, MaxLines)}

\* A hand-made source next to another source, in either order.
InitShape ==
    /\ document = ShapeDoc
    /\ csv_paths \in {<<a, b>> : a \in ShapeSources, b \in OtherSources}
                     \cup {<<b, a>> : a \in ShapeSources, b \in OtherSources}

Init ==
    /\ pc = "start"
    /\ InitMatch \/ InitShape
    /\ ocr_texts = None /\ dataset_rows = None /\ invoice_text = None
    /\ banned_found = None /\ returned = None /\ raised = None
    /\ text = None /\ once = None /\ twice = None

\* ocr_texts = ocr_pdf_text(pdf_path); a failure leaves process_invoice.
OcrPdfText ==
    /\ pc = "start"
    /\ IF document.ok
       THEN /\ ocr_texts' = document.pages
            /\ pc' = "ocr_done"
            /\ UNCHANGED raised
       ELSE /\ raised' = "OcrError"
            /\ pc' = "raised"
            /\ UNCHANGED ocr_texts
    /\ UNCHANGED <<document, csv_paths, dataset_rows, invoice_text, banned_found,
                   returned, text, once, twice>>

\* dataset_rows = load_dataset_csv(dataset_csvs)
LoadDatasetCsv ==
    /\ pc = "ocr_done"
    /\ LET res == load_dataset_csv(csv_paths)
       IN IF res.exc = None
          THEN /\ dataset_rows' = res.rows
               /\ pc' = "loaded"
               /\ UNCHANGED raised
          ELSE /\ raised' = res.exc
               /\ pc' = "raised"
               /\ UNCHANGED dataset_rows
    /\ UNCHANGED <<document, csv_paths, ocr_texts, invoice_text, banned_found,
                   returned, text, once, twice>>

\* banned_found = find_banned_drugs_in_invoice(ocr_texts, dataset_rows)
FindBanned ==
    /\ pc = "loaded"
    /\ invoice_text' = InvoiceText(ocr_texts)
    /\ banned_found' = FoundBanned(dataset_rows, invoice_text')
    /\ pc' = "matched"
    /\ UNCHANGED <<document, csv_paths, ocr_texts, dataset_rows, returned,
                   raised, text, once, twice>>

\* return {"ocr_text": "\n".join(ocr_texts), "banned_drugs": banned_found}
Return ==
    /\ pc = "matched"
    /\ returned' = [ocr_text |-> join(<<"\n">>, ocr_texts),
                    banned_drugs |-> banned_found]
    /\ pc' = "done"
    /\ UNCHANGED <<document, csv_paths, ocr_texts, dataset_rows, invoice_text, banned_found,
                   raised, text, once, twice>>

Next == OcrPdfText \/ LoadDatasetCsv \/ FindBanned \/ Return

Spec == Init /\ [][Next]_vars

(* ------------------------------ claims ------------------------------- *)
Matched == pc \in {"matched", "done"}
Loaded == pc \in {"loaded", "matched", "done"}
Result == Range(banned_found)
Rows == {dataset_rows[i] : i \in DOMAIN dataset_rows}
RawText == join(<<"\n">>, ocr_texts)

\* C1: every string of the result is the original generic of a banned row
\* that matched (exactly or with a score of at least 85) or the capitalized
\* safety-net keyword found in the text; a non-banned row adds nothing.
C1_NonBannedExcluded ==
    Matched =>
        LET t == invoice_text
        IN \A s \in Result :
            \/ \E r \in Rows :
                  /\ r.is_banned
                  /\ r.generic = s
                  /\ LET g == normalize(r.generic)
                         score == fuzz_partial_ratio(g, t)
                     IN /\ g # <<>>
                        /\ Contains(t, g) \/ 100 * score.num >= 85 * score.den
            \/ s = <<"N","i","m","e","s","u","l","i","d","e">> /\ Contains(t, <<"n","i","m","e","s","u","l","i","d","e">>)

\* A non-banned Cefixime row, "cefixime" in the invoice text, and a result
\* without "Cefixime".
C1_Witness ==
    /\ pc = "done"
    /\ \E r \in Rows : ~r.is_banned /\ r.generic = <<"C","e","f","i","x","i","m","e">>
    /\ Contains(invoice_text, <<"c","e","f","i","x","i","m","e">>)
    /\ <<"C","e","f","i","x","i","m","e">> \notin Result

\* C2: a banned row whose non-empty normalized generic occurs in the
\* normalized invoice text has its original generic in the result.
C2_ExactMatchFlagged ==
    Matched =>
        LET t == invoice_text
        IN \A r \in Rows :
            LET g == normalize(r.generic)
            IN (r.is_banned /\ g # <<>> /\ Contains(t, g)) => r.generic \in Result

\* The spec's scenario: banned "Cefixime", a page reading "CEFIXIME-200mg".
C2_Witness ==
    /\ pc = "done"
    /\ \E r \in Rows : r.is_banned /\ r.generic = <<"C","e","f","i","x","i","m","e">>
    /\ \E k \in DOMAIN ocr_texts : ocr_texts[k] = <<"C","E","F","I","X","I","M","E","-","2","0","0","m","g">>
    /\ <<"C","e","f","i","x","i","m","e">> \in Result

\* C3: a banned row whose normalized generic is not a substring of the
\* normalized invoice text is flagged exactly when its partial-similarity
\* score is at least 85.
C3_ThresholdInclusive ==
    Matched =>
        LET t == invoice_text
        IN \A r \in Rows :
            LET g == normalize(r.generic)
                score == fuzz_partial_ratio(g, t)
            IN (r.is_banned /\ g # <<>> /\ ~Contains(t, g))
               => (r.generic \in Result <=> 100 * score.num >= 85 * score.den)

\* One run with a row scoring exactly 85 (flagged) and a row scoring
\* between 84 and 85 (not flagged).
C3_Witness ==
    /\ pc = "done"
    /\ \E r \in Rows :
          LET score == fuzz_partial_ratio(normalize(r.generic), invoice_text)
          IN /\ r.is_banned
             /\ ~Contains(invoice_text, normalize(r.generic))
             /\ 100 * score.num = 85 * score.den
             /\ r.generic \in Result
    /\ \E r \in Rows :
          LET score == fuzz_partial_ratio(normalize(r.generic), invoice_text)
          IN /\ r.is_banned
             /\ normalize(r.generic) # <<>>
             /\ 100 * score.num >= 84 * score.den
             /\ 100 * score.num < 85 * score.den
             /\ r.generic \notin Result

\* C4: whenever the normalized invoice text contains the safety-net keyword
\* "nimesulide", "Nimesulide" is in the result, whatever the dataset; with
\* an empty dataset and "nimesulide" in the raw text the result is exactly
\* ["Nimesulide"].
C4_SafetyNetUnconditional ==
    Matched =>
        /\ Contains(invoice_text, <<"n","i","m","e","s","u","l","i","d","e">>) => <<"N","i","m","e","s","u","l","i","d","e">> \in Result
        /\ (dataset_rows = <<>> /\ Contains(RawText, <<"n","i","m","e","s","u","l","i","d","e">>))
               => banned_found = <<<<"N","i","m","e","s","u","l","i","d","e">>>>

\* An empty dataset and a text containing "nimesulide".
C4_Witness ==
    /\ pc = "done"
    /\ dataset_rows = <<>>
    /\ Contains(RawText, <<"n","i","m","e","s","u","l","i","d","e">>)
    /\ returned.banned_drugs = <<<<"N","i","m","e","s","u","l","i","d","e">>>>

\* C5: the result is in strictly ascending code-point order, hence without
\* two equal strings.
C5_SortedNoDuplicates ==
    Matched =>
        \A i \in 1..(Len(banned_found) - 1) :
            StrLess(banned_found[i], banned_found[i + 1])

\* Two rows carrying the same generic "nimesulide" and the safety net's
\* "Nimesulide": one entry for the rows, and both spellings remain.
C5_Witness ==
    /\ pc = "done"
    /\ \E i, j \in DOMAIN dataset_rows :
          /\ i # j
          /\ dataset_rows[i].is_banned /\ dataset_rows[j].is_banned
          /\ dataset_rows[i].generic = <<"n","i","m","e","s","u","l","i","d","e">>
          /\ dataset_rows[j].generic = <<"n","i","m","e","s","u","l","i","d","e">>
    /\ banned_found = <<<<"N","i","m","e","s","u","l","i","d","e">>, <<"n","i","m","e","s","u","l","i","d","e">>>>

\* C7: shaping the rows of a data line never raises: no AttributeError
\* leaves load_dataset_csv, whatever fields a line lacks.
C7_RowShapingNeverRaises == raised # "AttributeError"

\* The raw is_banned value of every non-blank data line, source by source.
RawIsBanned(p) ==
    IF p.kind # "file" THEN <<>>
    ELSE LET kept == SelectSeq(p.lines, LAMBDA l : l # <<>>)
             col == {n \in DOMAIN p.header : p.header[n] = "is_banned"}
         IN [k \in DOMAIN kept |->
                IF \E n \in col : n <= Len(kept[k])
                THEN kept[k][CHOOSE n \in col : TRUE]
                ELSE <<>>]

\* "true" in any mix of upper and lower case.
IsTrueToken(v) ==
    /\ Len(v) = 4
    /\ v[1] \in {"t", "T"} /\ v[2] \in {"r", "R"}
    /\ v[3] \in {"u", "U"} /\ v[4] \in {"e", "E"}

\* No data line of a CSV source is shorter than its header.
NoShortLine ==
    \A i \in DOMAIN csv_paths :
        \A k \in DOMAIN csv_paths[i].lines :
            LET l == csv_paths[i].lines[k]
            IN l = <<>> \/ Len(l) >= Len(csv_paths[i].header)

\* The rows a source contributes when it can be read, none otherwise.
RowsIfReadable(p) == IF p.kind = "file" THEN ReadRows(p.header, p.lines).rows ELSE <<>>

\* C8: an absent or unreadable source is skipped without an error: when no
\* data line is short, load_dataset_csv never raises, the pipeline gets
\* exactly the rows of the readable sources, in source order, and returns
\* the matcher's result for them.
C8_UnreadableSourceSkipped ==
    NoShortLine =>
        /\ pc = "raised" => raised = "OcrError"
        /\ Loaded =>
             dataset_rows = RowsIfReadable(csv_paths[1]) \o RowsIfReadable(csv_paths[2])

\* C9: a loaded row is banned exactly when its raw is_banned value is the
\* token "true" in some letter case; a missing, empty, padded or otherwise
\* spelled value gives false.
C9_IsBannedStrictParse ==
    Loaded =>
        LET raw == RawIsBanned(csv_paths[1]) \o RawIsBanned(csv_paths[2])
        IN /\ Len(dataset_rows) = Len(raw)
           /\ \A k \in DOMAIN raw : dataset_rows[k].is_banned = IsTrueToken(raw[k])

\* A source whose two lines spell is_banned "TRUE" and " true": the first
\* row is banned, the second is not.
C9_Witness ==
    /\ Loaded
    /\ RawIsBanned(csv_paths[1]) = <<<<"T","R","U","E">>, <<" ","t","r","u","e">>>>
    /\ dataset_rows[1].is_banned
    /\ ~dataset_rows[2].is_banned

\* C10: a banned row whose generic normalizes to the empty string adds
\* nothing: its generic is not in the result, for any invoice text.
C10_EmptyGenericInert ==
    Matched =>
        \A r \in Rows :
            (r.is_banned /\ normalize(r.generic) = <<>>) => r.generic \notin Result

\* Banned rows with an empty generic and with a generic of punctuation
\* only, matched against a non-empty text.
C10_Witness ==
    /\ pc = "done"
    /\ invoice_text # <<>>
    /\ \E r \in Rows : r.is_banned /\ r.generic = <<>>
    /\ \E r \in Rows : r.is_banned /\ r.generic = <<"-","+">>
    /\ <<>> \notin Result
    /\ <<"-","+">> \notin Result

(* ----------------------- normalize harness --------------------------- *)
Alphabet == {"a", "B", "7", " ", "\n", "-", "U+00A0", "U+00C9", "U+0130", "U+212A"}

RECURSIVE StringsUpTo(_)
StringsUpTo(n) ==
    IF n = 0 THEN {<<>>}
    ELSE LET shorter == StringsUpTo(n - 1)
         IN shorter \cup {<<c>> \o s : c \in Alphabet, s \in {t \in shorter : Len(t) = n - 1}}

PipelineIdle ==
    /\ document = None /\ csv_paths = <<>> /\ ocr_texts = None
    /\ dataset_rows = None /\ invoice_text = None /\ banned_found = None
    /\ returned = None /\ raised = None

InitNormalize ==
    /\ pc = "norm0"
    /\ text \in StringsUpTo(MaxLen)
    /\ once = None /\ twice = None
    /\ PipelineIdle

NormalizeOnce ==
    /\ pc = "norm0"
    /\ once' = normalize(text)
    /\ pc' = "norm1"
    /\ UNCHANGED <<document, csv_paths, ocr_texts, dataset_rows, invoice_text, banned_found,
                   returned, raised, text, twice>>

NormalizeTwice ==
    /\ pc = "norm1"
    /\ twice' = normalize(once)
    /\ pc' = "norm2"
    /\ UNCHANGED <<document, csv_paths, ocr_texts, dataset_rows, invoice_text, banned_found,
                   returned, raised, text, once>>

NextNormalize == NormalizeOnce \/ NormalizeTwice

SpecNormalize == InitNormalize /\ [][NextNormalize]_vars

\* C6: normalize is idempotent: normalizing an already normalized string
\* gives the same string, for every input string.
C6_NormalizeIdempotent == pc = "norm2" => twice = once

\* A string whose first normalization changed it (mixed case, a non-ASCII
\* character lowering to two characters, trailing whitespace) and whose
\* second normalization has run.
C6_Witness ==
    /\ pc = "norm2"
    /\ text = <<"B", "U+0130", "\n">>
    /\ once = <<"b", "i">>
    /\ twice = once
====
